---- MODULE Spec2Model ----
(***************************************************************************)
(* A model of AIMetaverseOrchestrator (src/ai_metaverse/orchestrator.py):  *)
(* the pending queue, the results store, the caller's task dictionaries,   *)
(* the dispatch loop of process_tasks with its pool of worker futures,     *)
(* handle_feedback and the status queries.                                 *)
(*                                                                         *)
(* Two kinds of behaviour are described.  Spec is the program driven by    *)
(* one caller thread: every public operation runs to completion before the *)
(* next one starts (process_tasks is shown step by step, since its worker  *)
(* futures run in pool threads).  SpecConc lets submit_task calls of        *)
(* several threads interleave, statement by statement, with each other and *)
(* with a running process_tasks call.                                      *)
(***************************************************************************)
EXTENDS Integers, Sequences, FiniteSets, TLC

(***************************************************************************)
(* Bounds of the model.                                                    *)
(***************************************************************************)
\* int(time.time()) takes the values 0..MaxClock
MaxClock == 1
\* at most MaxTasks submit_task calls are made in a behaviour
MaxTasks == 2
\* at most MaxFeedback handle_feedback calls are made in a behaviour
MaxFeedback == 1
\* at most MaxRepeat handle_feedback calls are made in a behaviour of
\* SpecFeedback
MaxRepeat == 3
\* at most MaxFaults worker invocations of a behaviour end otherwise than by
\* returning a result of status success
MaxFaults == 3

\* The caller's task dictionaries: submit_task mutates the dictionary it is
\* given and enqueues that very object, so object identity is part of the state.
Objs == {"o1", "o2"}

\* Threads calling submit_task and threads calling process_tasks (SpecConc).
SubThreads == {"s1", "s2"}
DispThreads == {"d1"}

(***************************************************************************)
(* Configuration (config.py) and the worker registry.                      *)
(***************************************************************************)
\* The keys of ASSISTANTS.
ASSISTANTS == {"Earth", "Moon", "Sun", "Mercury", "Venus", "Mars", "Jupiter"}

\* The keys of assistant_classes in initialize_assistants.
assistant_classes == {"Earth", "Moon", "Sun"}

\* initialize_assistants: one worker per configured name that has a class.
initialize_assistants(config) == {name \in config : name \in assistant_classes}

(***************************************************************************)
(* Task types and routing.                                                 *)
(***************************************************************************)
\* Values of task.get('type', ''): the four mapped types, an unmapped one,
\* and '' for a dictionary without the key.
TaskTypes == {"code_generation", "syntax_check", "performance_optimization",
              "full_pipeline", "unknown", ""}

\* The types of the dictionaries the caller submits in the behaviours checked.
SubmittedTypes == {"code_generation", "syntax_check", "full_pipeline", "unknown"}

\* mutant of determine_required_assistants: no default for an unmapped type
determine_required_assistants_no_default(task_type) ==
    CASE task_type = "code_generation" -> <<"Earth">>
      [] task_type = "syntax_check" -> <<"Moon">>
      [] task_type = "performance_optimization" -> <<"Sun">>
      [] task_type = "full_pipeline" -> <<"Earth", "Moon", "Sun">>
      [] OTHER -> <<>>

\* task_assistant_mapping.get(task_type, ['Earth'])
determine_required_assistants(task_type) ==
    CASE task_type = "code_generation" -> <<"Earth">>
      [] task_type = "syntax_check" -> <<"Moon">>
      [] task_type = "performance_optimization" -> <<"Sun">>
      [] task_type = "full_pipeline" -> <<"Earth", "Moon", "Sun">>
      [] OTHER -> <<"Earth">>

(***************************************************************************)
(* Task ids.  f"task_{int(time.time())}_{len(self.task_queue)}" is         *)
(* injective in the pair (clock, queue length): both are printed in        *)
(* decimal and separated by "_".  The pair stands for the string.          *)
(***************************************************************************)
make_task_id(now, queue_len) == <<now, queue_len>>

\* The id of a dictionary that was never submitted (no 'task_id' key).
NoId == <<-1, -1>>

(***************************************************************************)
(* Worker results.                                                         *)
(***************************************************************************)
\* What a worker's process_task returns: its try block's result (status
\* success or partial_success, with the domain payload), or its except
\* block's result (status error, error = str(e), no payload).
WorkerSuccess == [status |-> "success", payload |-> "data", error |-> "none"]
WorkerPartial == [status |-> "partial_success", payload |-> "data", error |-> "none"]
WorkerError == [status |-> "error", payload |-> "null", error |-> "worker_message"]

\* The entry process_tasks builds when a future raised: {'status': 'error',
\* 'error': str(e)}; msg stands for str(e).
error_entry(msg) == [status |-> "error", payload |-> "null", error |-> msg]

\* A future: still running, or done with the value it returned, or done with
\* the exception it raised.
Running == [done |-> FALSE, raised |-> FALSE, value |-> error_entry("none")]
Returned(r) == [done |-> TRUE, raised |-> FALSE, value |-> r]
Raised(msg) == [done |-> TRUE, raised |-> TRUE, value |-> error_entry(msg)]

\* A future whose process_task call never returns: it is never done, and
\* future.result() (line 86, called without a timeout) waits for it forever.
Blocked == [done |-> FALSE, raised |-> FALSE, value |-> error_entry("never_returns")]

\* What process_task of a registered worker can do: return one of the three
\* results, or raise (the abstract contract of BaseAssistant.process_task).
ProcessTaskOutcomes ==
    {Returned(WorkerSuccess), Returned(WorkerPartial), Returned(WorkerError),
     Raised("exception_message")}

\* _process_task_with_assistant: an unregistered name raises ValueError,
\* a registered worker's process_task is called.
process_task_with_assistant(registry, assistant_name) ==
    IF assistant_name \notin registry
    THEN {Raised("assistant_not_found")}
    ELSE ProcessTaskOutcomes

(***************************************************************************)
(* Task records of the results store.                                      *)
(***************************************************************************)
\* final_result: None, or the combined_result of _combine_results.  Its
\* 'components' is a dictionary object, not a copy: aliased says that it is
\* the very dictionary this record holds as assistant_results (and so has
\* its entries, now and later); otherwise it is the assistant_results of a
\* record that has since been replaced, whose entries are in components.
NoFinal == [present |-> FALSE, status |-> "none", generated_code |-> "absent",
            syntax_validation |-> "absent", performance_analysis |-> "absent",
            aliased |-> FALSE, components |-> <<>>]

NoFeedback == [present |-> FALSE, assistant_feedback |-> <<>>]

\* The record submit_task stores: status pending, no worker results, no
\* final result (and no 'feedback' key).
PendingRecord ==
    [status |-> "pending", assistant_results |-> <<>>, final_result |-> NoFinal,
     feedback |-> NoFeedback]

\* assistant_results is a function from the worker names that have an entry
\* to their result; <<>> is the empty dictionary.
put_entry(assistant_results, name, result) ==
    [n \in DOMAIN assistant_results \cup {name} |->
        IF n = name THEN result ELSE assistant_results[n]]

\* results[task_id] = rec
put_record(store, task_id, rec) ==
    [i \in DOMAIN store \cup {task_id} |-> IF i = task_id THEN rec ELSE store[i]]

\* mutant of all_successful: any() in place of all()
all_successful_any(assistant_results) ==
    \E n \in DOMAIN assistant_results : assistant_results[n].status = "success"

\* all(result.get('status') == 'success' for result in assistant_results.values())
all_successful(assistant_results) ==
    \A n \in DOMAIN assistant_results : assistant_results[n].status = "success"

\* mutant of combined_status: 'error' when no worker succeeded
combined_status_error_when_all_failed(assistant_results) ==
    IF all_successful(assistant_results) THEN "success"
    ELSE IF \A n \in DOMAIN assistant_results :
               assistant_results[n].status = "error"
         THEN "error"
         ELSE "partial_success"

\* 'success' if all_successful else 'partial_success'
combined_status(assistant_results) ==
    IF all_successful(assistant_results) THEN "success" ELSE "partial_success"

\* assistant_results[name].get(key) when name has an entry: the payload, or
\* None for an error entry; the key is not set when name has no entry.
extract(assistant_results, name) ==
    IF name \in DOMAIN assistant_results
    THEN assistant_results[name].payload
    ELSE "absent"

\* lines 111-121: combined_result as first built, from the entries the
\* dictionary has when all() reads them.  aliased and components describe
\* the dictionary object that 'components' refers to (see NoFinal).
combined_result(assistant_results, aliased) ==
    [present |-> TRUE,
     status |-> combined_status(assistant_results),
     generated_code |-> "absent",
     syntax_validation |-> "absent",
     performance_analysis |-> "absent",
     aliased |-> aliased,
     components |-> IF aliased THEN <<>> ELSE assistant_results]

\* The names lines 124-131 look for, in the order of the three if statements.
CombineKeys == <<"Earth", "Moon", "Sun">>

\* lines 125, 128, 131: combined_result[key] = assistant_results[name].get(...)
set_extracted(result, k, value) ==
    IF k = 1 THEN [result EXCEPT !.generated_code = value]
    ELSE IF k = 2 THEN [result EXCEPT !.syntax_validation = value]
    ELSE [result EXCEPT !.performance_analysis = value]

\* lines 133-134: the status and the final result are written into the
\* record results[task_id] holds at that moment.
combine_results(rec, result) ==
    [rec EXCEPT !.status = result.status, !.final_result = result]

\* final_result['components'] of a finalized record
components(rec) ==
    IF rec.final_result.aliased
    THEN rec.assistant_results
    ELSE rec.final_result.components

\* The default of get_task_status: {'status': 'not_found', 'error': f'Task
\* {task_id} not found'}; the tuple stands for the formatted message.
NotFound(task_id) ==
    [status |-> "not_found", error |-> <<"Task", task_id, "not found">>]

\* mutant of get_task_status: an unknown id is answered with a pending record
get_task_status_pending_default(store, task_id) ==
    IF task_id \in DOMAIN store THEN store[task_id] ELSE PendingRecord

\* get_task_status: self.results.get(task_id, {...})
get_task_status(store, task_id) ==
    IF task_id \in DOMAIN store THEN store[task_id] ELSE NotFound(task_id)

(***************************************************************************)
(* get_assistant_status and get_system_status.                             *)
(***************************************************************************)
\* mutant of completed_statuses: partial_success counts as completed
completed_statuses_with_partial ==
    {"success", "partial_success", "completed_with_feedback"}

\* The statuses get_system_status counts as completed (line 179).
completed_statuses == {"success", "completed_with_feedback"}

\* len([task_id for task_id, result in self.results.items() if ...]): the
\* items of the dictionary are visited one by one, ids being the ids left.
RECURSIVE count_completed(_, _)
count_completed(store, ids) ==
    IF ids = {}
    THEN 0
    ELSE LET task_id == CHOOSE i \in ids : TRUE
         IN (IF store[task_id].status \in completed_statuses THEN 1 ELSE 0)
               + count_completed(store, ids \ {task_id})

\* len([task for task in self.task_queue if assistant_name in
\* task['assigned_assistants']]); dicts holds the task dictionaries.
\* A load that counts every pending task, whatever its assigned workers.
current_load_whole_queue(queue, dicts, assistant_name) == Len(queue)

RECURSIVE current_load(_, _, _)
current_load(queue, dicts, assistant_name) ==
    IF queue = <<>>
    THEN 0
    ELSE (IF \E k \in 1..Len(dicts[Head(queue)].assigned_assistants) :
                dicts[Head(queue)].assigned_assistants[k] = assistant_name
          THEN 1 ELSE 0)
            + current_load(Tail(queue), dicts, assistant_name)

\* get_assistant_status: a registered worker is active with its current load
\* ('capabilities' is the constant list of config.py and is left out); any
\* other name is answered with status not_found and the message 'Assistant
\* <name> not found', for which "assistant_not_found" stands.
get_assistant_status(registry, queue, dicts, assistant_name) ==
    IF assistant_name \in registry
    THEN [status |-> "active",
          current_load |-> current_load(queue, dicts, assistant_name)]
    ELSE [status |-> "not_found", error |-> "assistant_not_found"]

\* A system status that counts as active only the workers with pending work.
get_system_status_busy_only(registry, queue, dicts, store) ==
    [active_assistants |->
        Cardinality({name \in registry : current_load(queue, dicts, name) > 0}),
     pending_tasks |-> Len(queue),
     completed_tasks |-> count_completed(store, DOMAIN store),
     assistant_status |->
        [name \in registry |-> get_assistant_status(registry, queue, dicts, name)]]

\* get_system_status
get_system_status(registry, queue, dicts, store) ==
    [active_assistants |-> Cardinality(registry),
     pending_tasks |-> Len(queue),
     completed_tasks |-> count_completed(store, DOMAIN store),
     assistant_status |->
        [name \in registry |-> get_assistant_status(registry, queue, dicts, name)]]

(***************************************************************************)
(* State.                                                                  *)
(***************************************************************************)
VARIABLES
    clock,        \* int(time.time())
    assistants,   \* self.assistants: the names registered
    task_queue,   \* self.task_queue: a list of task dictionaries (objects)
    heap,         \* the task dictionaries: type, task_id, assigned_assistants
    results,      \* self.results: task id -> record
    dpc,          \* position of each process_tasks call
    d_task,       \* its local task: the dictionary just dequeued
    d_task_id,    \* its local task_id
    d_order,      \* its task['assigned_assistants'], in dispatch order
    d_futures,    \* its future_to_assistant: worker name -> future
    d_i,          \* index of the future the collection loop is at
    d_exc,        \* the exception the call raised ("none" if it did not)
    d_assistant_results,  \* _combine_results: the dictionary read at line 108
    d_combined_result,    \* _combine_results: combined_result as built so far
    spc,          \* position of each submit_task call (SpecConc)
    s_obj,        \* its task argument
    s_now,        \* its int(time.time()) of line 37
    s_id,         \* its local task_id
    returned,     \* history: the ids submit_task returned, in order
    routed,       \* history: id -> assigned workers of the latest submission
    combined,     \* history: id -> number of _combine_results runs
    started,      \* history: number of submit_task calls begun
    fb,           \* history: the last handle_feedback call and its deliveries
    faults,       \* history: number of worker invocations that did not succeed
    reply,        \* history: the status query just made and the value it returned
    sqs,          \* BaseAssistant: ids of the messages on the queue of config['queue_url']
    sqs_hidden,   \* those received and not yet visible again
    apc,          \* position of BaseAssistant.run
    a_messages,   \* its local messages, from the one being handled on
    a_log         \* history of run: messages sent, processed, reported; queue size
                  \* when the handling of the current message began

vars == <<clock, assistants, task_queue, heap, results, dpc, d_task_id, d_order,
          d_futures, d_i, d_exc, spc, s_obj, s_id, returned, routed, combined,
          started, fb, faults, reply, sqs, sqs_hidden, apc, a_messages, a_log,
          d_task, d_assistant_results, d_combined_result, s_now>>

avars == <<sqs, sqs_hidden, apc, a_messages, a_log>>
cvars == <<d_task, d_assistant_results, d_combined_result>>
dvars == <<dpc, d_task_id, d_order, d_futures, d_i, d_exc, cvars>>
svars == <<spc, s_obj, s_id, s_now>>

FreshDict == [type |-> "", task_id |-> NoId, assigned_assistants |-> <<>>,
              used |-> FALSE]

NoCall == [calls |-> 0, task_id |-> NoId, known |-> FALSE, payload |-> <<>>,
           delivered |-> <<>>, raised |-> FALSE,
           value |-> [none |-> FALSE, status |-> "no_call"],
           before |-> NoFeedback]

\* No status query has just been made.
NoReply ==
    [op |-> "none", task_id |-> NoId, task |-> NotFound(NoId),
     system |-> get_system_status({}, <<>>, <<>>, <<>>)]

\* fb describes the handle_feedback call the caller has just made; it is
\* forgotten (but for the number of calls) when the caller goes on.
forget_call(call) == [NoCall EXCEPT !.calls = call.calls]

\* process_tasks holds no dequeued task.
NoTask == "none"

\* The local assistant_results of _combine_results refers to a dictionary
\* object: attached says that it is the one the record of the task holds
\* now; when submit_task has replaced that record since line 108 it is not,
\* and value has the entries the dictionary was left with (nothing writes
\* to it any more).  NoDictionary: _combine_results is not running.
NoDictionary == [attached |-> FALSE, value |-> <<>>]

\* The record's own dictionary, read at line 108.
RecordDictionary == [attached |-> TRUE, value |-> <<>>]

\* combined_result and the next of the three keys to look for.
NotCombining == [result |-> NoFinal, k |-> 0]

\* No BaseAssistant.run loop is running (the orchestrator calls process_task
\* directly and never calls run).
NoAssistantLoop ==
    /\ sqs = {}
    /\ sqs_hidden = {}
    /\ apc = "off"
    /\ a_messages = <<>>
    /\ a_log = [sent |-> 0, processed |-> {}, reported |-> {}, size0 |-> 0]

\* The orchestrator after __init__ with the given configuration.
OrchestratorInit(config) ==
    /\ clock = 0
    /\ assistants = initialize_assistants(config)
    /\ task_queue = <<>>
    /\ heap = [o \in Objs |-> FreshDict]
    /\ results = <<>>
    /\ dpc = [d \in DispThreads |-> "idle"]
    /\ d_task = [d \in DispThreads |-> NoTask]
    /\ d_task_id = [d \in DispThreads |-> NoId]
    /\ d_order = [d \in DispThreads |-> <<>>]
    /\ d_futures = [d \in DispThreads |-> <<>>]
    /\ d_i = [d \in DispThreads |-> 0]
    /\ d_exc = [d \in DispThreads |-> "none"]
    /\ d_assistant_results = [d \in DispThreads |-> NoDictionary]
    /\ d_combined_result = [d \in DispThreads |-> NotCombining]
    /\ spc = [s \in SubThreads |-> "idle"]
    /\ s_now = [s \in SubThreads |-> 0]
    /\ s_obj = [s \in SubThreads |-> "o1"]
    /\ s_id = [s \in SubThreads |-> NoId]
    /\ returned = <<>>
    /\ routed = <<>>
    /\ combined = <<>>
    /\ started = 0
    /\ fb = NoCall
    /\ faults = 0
    /\ reply = NoReply

InitWith(config) == NoAssistantLoop /\ OrchestratorInit(config)

\* __init__ with the ASSISTANTS of config.py
Init == InitWith(ASSISTANTS)

\* int(time.time()) read at line 37: time does not run backwards between two
\* reads, and is otherwise any value within the bound.  clock is the value
\* of the latest read.
TimeReadings == clock..MaxClock

(***************************************************************************)
(* submit_task.                                                            *)
(***************************************************************************)
ObjOrder == <<"o1", "o2">>

\* The dictionary the caller passes: a new one of some type, or one it has
\* passed before, unchanged since.  New dictionaries are taken in ObjOrder.
CallerPasses(o, ty) ==
    IF heap[o].used
    THEN ty = heap[o].type
    ELSE \A k \in 1..Len(ObjOrder) :
            ObjOrder[k] = o => \A j \in 1..(k - 1) : heap[ObjOrder[j]].used

\* lines 38-43: task['task_id'] = task_id, task['assigned_assistants'] = ...
\* (task['status'] and task['timestamp'] are written and never read)
stamp_task(dict, ty, task_id) ==
    [type |-> ty, task_id |-> task_id,
     assigned_assistants |-> determine_required_assistants(ty), used |-> TRUE]

\* A queue that takes a new task at its front.
enqueue_front(queue, o) == <<o>> \o queue

\* line 45: self.task_queue.append(task)
enqueue(queue, o) == Append(queue, o)

\* mutant of store_pending: an existing record is kept (setdefault)
store_pending_keep(store, task_id) ==
    IF task_id \in DOMAIN store THEN store ELSE put_record(store, task_id, PendingRecord)

\* lines 46-50: self.results[task_id] = {'status': 'pending', ...}
store_pending(store, task_id) == put_record(store, task_id, PendingRecord)

\* history: an id seen for the first time has been combined 0 times
count_from_zero(counts, task_id) ==
    IF task_id \in DOMAIN counts THEN counts ELSE put_record(counts, task_id, 0)

\* No public operation of the single caller is running.
CallerFree ==
    /\ \A d \in DispThreads : dpc[d] \in {"idle", "raised"}
    /\ \A s \in SubThreads : spc[s] = "idle"

\* submit_task(task) as one call of the single caller (lines 35-52).
SubmitTask(o, ty, now) ==
    /\ CallerFree
    /\ started < MaxTasks
    /\ CallerPasses(o, ty)
    /\ now \in TimeReadings
    /\ clock' = now
    /\ LET task_id == make_task_id(now, Len(task_queue))
           dict == stamp_task(heap[o], ty, task_id)
       IN /\ heap' = [heap EXCEPT ![o] = dict]
          /\ task_queue' = enqueue(task_queue, o)
          /\ results' = store_pending(results, task_id)
          /\ returned' = Append(returned, task_id)
          /\ routed' = put_record(routed, task_id, dict.assigned_assistants)
          /\ combined' = count_from_zero(combined, task_id)
    /\ started' = started + 1
    /\ fb' = forget_call(fb)
    /\ reply' = NoReply
    /\ UNCHANGED <<assistants, avars, faults, dvars, svars>>

\* submit_task of thread s, statement by statement (SpecConc).
\* line 37, first call: int(time.time()) is read
SubBegin(s, o, ty, now) ==
    /\ spc[s] = "idle"
    /\ now \in TimeReadings
    /\ clock' = now
    /\ started < MaxTasks
    /\ CallerPasses(o, ty)
    \* one dictionary is not handed to two calls that run at the same time
    /\ \A s2 \in SubThreads : spc[s2] # "idle" => s_obj[s2] # o
    /\ heap' = [heap EXCEPT ![o].type = ty, ![o].used = TRUE]
    /\ s_obj' = [s_obj EXCEPT ![s] = o]
    /\ s_now' = [s_now EXCEPT ![s] = now]
    /\ spc' = [spc EXCEPT ![s] = "len"]
    /\ started' = started + 1
    /\ UNCHANGED <<reply, assistants, avars, faults, task_queue, results, dvars, s_id,
                   returned, routed, combined, fb>>

\* line 37, second call: len(self.task_queue) is read and the id is formatted
SubLen(s) ==
    /\ spc[s] = "len"
    /\ s_id' = [s_id EXCEPT ![s] = make_task_id(s_now[s], Len(task_queue))]
    /\ s_now' = [s_now EXCEPT ![s] = 0]
    /\ spc' = [spc EXCEPT ![s] = "stamp"]
    /\ UNCHANGED <<reply, clock, assistants, avars, faults, task_queue, heap, results,
                   dvars, s_obj, returned, routed, combined, started, fb>>

\* lines 38-43
SubStamp(s) ==
    /\ spc[s] = "stamp"
    /\ heap' = [heap EXCEPT ![s_obj[s]] = stamp_task(@, @.type, s_id[s])]
    /\ spc' = [spc EXCEPT ![s] = "append"]
    /\ UNCHANGED <<reply, clock, assistants, avars, s_now, faults, task_queue, results, dvars, s_obj, s_id,
                   returned, routed, combined, started, fb>>

\* line 45
SubAppend(s) ==
    /\ spc[s] = "append"
    /\ task_queue' = enqueue(task_queue, s_obj[s])
    /\ spc' = [spc EXCEPT ![s] = "record"]
    /\ UNCHANGED <<reply, clock, assistants, avars, s_now, faults, heap, results, dvars, s_obj, s_id,
                   returned, routed, combined, started, fb>>

\* The dictionaries that running _combine_results calls hold, after the record
\* of task_id has been replaced: a call that read the record's dictionary at
\* line 108 keeps that dictionary, which is no longer the record's.
after_replacement(refs, ids, store, task_id) ==
    [d \in DOMAIN refs |->
        IF refs[d].attached /\ ids[d] = task_id /\ task_id \in DOMAIN store
        THEN [attached |-> FALSE, value |-> store[task_id].assistant_results]
        ELSE refs[d]]

\* lines 46-52: the record is stored and the id returned
SubRecord(s) ==
    /\ spc[s] = "record"
    /\ results' = store_pending(results, s_id[s])
    /\ d_assistant_results' =
          after_replacement(d_assistant_results, d_task_id, results, s_id[s])
    /\ returned' = Append(returned, s_id[s])
    /\ routed' = put_record(routed, s_id[s], heap[s_obj[s]].assigned_assistants)
    /\ combined' = count_from_zero(combined, s_id[s])
    /\ spc' = [spc EXCEPT ![s] = "idle"]
    /\ s_id' = [s_id EXCEPT ![s] = NoId]
    /\ UNCHANGED <<reply, clock, assistants, avars, s_now, faults, task_queue, heap,
                   dpc, d_task, d_task_id, d_order, d_futures, d_i, d_exc,
                   d_combined_result, s_obj, started, fb>>

(***************************************************************************)
(* process_tasks.                                                          *)
(***************************************************************************)
\* the set of elements of a list
Range(seq) == {seq[k] : k \in 1..Len(seq)}

\* mutant of write_entry: the entry of a failed worker is dropped
write_entry_skip_failed(store, task_id, name, result) ==
    IF result.status = "error"
    THEN store
    ELSE [store EXCEPT ![task_id].assistant_results = put_entry(@, name, result)]

\* A collection that records a result as cancelled when an error entry was
\* recorded for the task before it.
write_entry_cancel_after_error(store, task_id, name, result) ==
    LET ar == store[task_id].assistant_results
    IN IF \E m \in DOMAIN ar \ {name} : ar[m].status = "error"
       THEN [store EXCEPT ![task_id].assistant_results =
                             put_entry(@, name, error_entry("cancelled"))]
       ELSE [store EXCEPT ![task_id].assistant_results = put_entry(@, name, result)]

\* self.results[task_id]['assistant_results'][assistant_name] = result
write_entry(store, task_id, name, result) ==
    [store EXCEPT ![task_id].assistant_results = put_entry(@, name, result)]

\* lines 133-134 on the store
finalize(store, task_id, result) ==
    [store EXCEPT ![task_id] = combine_results(@, result)]

\* line 71: ThreadPoolExecutor(max_workers=len(self.assistants)) raises
\* ValueError when max_workers is 0.
ProcBegin(d) ==
    /\ dpc[d] \in {"idle", "raised"}
    /\ IF Cardinality(assistants) = 0
       THEN /\ dpc' = [dpc EXCEPT ![d] = "raised"]
            /\ d_exc' = [d_exc EXCEPT ![d] = "ValueError"]
       ELSE /\ dpc' = [dpc EXCEPT ![d] = "check"]
            /\ d_exc' = [d_exc EXCEPT ![d] = "none"]
    /\ d_task_id' = [d_task_id EXCEPT ![d] = NoId]
    /\ d_order' = [d_order EXCEPT ![d] = <<>>]
    /\ d_futures' = [d_futures EXCEPT ![d] = <<>>]
    /\ d_i' = [d_i EXCEPT ![d] = 0]
    /\ fb' = forget_call(fb)
    /\ reply' = NoReply
    /\ UNCHANGED <<clock, assistants, avars, cvars, faults, task_queue, heap, results, svars,
                   returned, routed, combined, started>>

\* process_tasks called by the single caller
ProcessTasks(d) == CallerFree /\ ProcBegin(d)

\* line 72: while self.task_queue
ProcCheck(d) ==
    /\ dpc[d] = "check"
    /\ dpc' = [dpc EXCEPT ![d] = IF task_queue = <<>> THEN "exit" ELSE "pop"]
    /\ UNCHANGED <<reply, clock, assistants, avars, cvars, faults, task_queue, heap, results, d_task_id,
                   d_order, d_futures, d_i, d_exc, svars, returned, routed,
                   combined, started, fb>>

\* line 73: task = self.task_queue.pop(0); pop(0) on an empty list raises
\* IndexError.
ProcPop(d) ==
    /\ dpc[d] = "pop"
    /\ IF task_queue = <<>>
       THEN /\ dpc' = [dpc EXCEPT ![d] = "raised"]
            /\ d_exc' = [d_exc EXCEPT ![d] = "IndexError"]
            /\ UNCHANGED <<task_queue, d_task>>
       ELSE /\ task_queue' = Tail(task_queue)
            /\ d_task' = [d_task EXCEPT ![d] = Head(task_queue)]
            /\ dpc' = [dpc EXCEPT ![d] = "read"]
            /\ UNCHANGED d_exc
    /\ UNCHANGED <<reply, clock, assistants, avars, faults, heap, results, d_task_id,
                   d_order, d_futures, d_i, d_assistant_results,
                   d_combined_result, svars, returned, routed, combined,
                   started, fb>>

\* lines 74-80: the task's id is read from the dictionary as it is now, and
\* one future is submitted per assigned worker.
ProcRead(d) ==
    /\ dpc[d] = "read"
    /\ LET task == heap[d_task[d]]
       IN /\ d_task_id' = [d_task_id EXCEPT ![d] = task.task_id]
          /\ d_order' = [d_order EXCEPT ![d] = task.assigned_assistants]
          /\ d_futures' = [d_futures EXCEPT ![d] =
                 [n \in Range(task.assigned_assistants) |-> Running]]
    /\ d_i' = [d_i EXCEPT ![d] = 1]
    /\ d_task' = [d_task EXCEPT ![d] = NoTask]
    /\ dpc' = [dpc EXCEPT ![d] = "collect"]
    /\ UNCHANGED <<reply, clock, assistants, avars, faults, task_queue, heap, results,
                   d_exc, d_assistant_results, d_combined_result, svars,
                   returned, routed, combined, started, fb>>

\* A pool thread runs _process_task_with_assistant(task, n) to its end.
WorkerRun(d, n) ==
    /\ dpc[d] \in {"collect", "handler"}
    /\ n \in DOMAIN d_futures[d]
    /\ d_futures[d][n] = Running
    /\ \E outcome \in process_task_with_assistant(assistants, n) :
          /\ d_futures' = [d_futures EXCEPT ![d][n] = outcome]
          /\ IF outcome = Returned(WorkerSuccess)
             THEN faults' = faults
             ELSE /\ faults < MaxFaults \/ n \notin assistants
                  /\ faults' = IF faults < MaxFaults THEN faults + 1 ELSE faults
    /\ UNCHANGED <<reply, clock, assistants, avars, cvars, task_queue, heap, results, dpc,
                   d_task_id, d_order, d_i, d_exc, svars, returned, routed,
                   combined, started, fb>>

\* A pool thread calls process_task of a registered worker and the call never
\* returns (SpecHang).
WorkerBlock(d, n) ==
    /\ dpc[d] = "collect"
    /\ n \in DOMAIN d_futures[d]
    /\ n \in assistants
    /\ d_futures[d][n] = Running
    /\ d_futures' = [d_futures EXCEPT ![d][n] = Blocked]
    /\ UNCHANGED <<reply, clock, assistants, avars, cvars, faults, task_queue, heap, results, dpc,
                   d_task_id, d_order, d_i, d_exc, svars, returned, routed,
                   combined, started, fb>>

\* A collection loop that does not wait for the last future of a task.
advance_skip_last(d) ==
    /\ d_i' = [d_i EXCEPT ![d] = @ + 1]
    /\ dpc' = [dpc EXCEPT ![d] =
                  IF d_i[d] >= Len(d_order[d]) - 1 THEN "combine" ELSE "collect"]

\* mutant of advance: _combine_results runs after the first future
advance_early(d) ==
    /\ d_i' = [d_i EXCEPT ![d] = @ + 1]
    /\ dpc' = [dpc EXCEPT ![d] = "combine"]

\* after the entry of the future at d_i is written: the next future, or
\* _combine_results when it was the last
advance(d) ==
    /\ d_i' = [d_i EXCEPT ![d] = @ + 1]
    /\ dpc' = [dpc EXCEPT ![d] =
                  IF d_i[d] = Len(d_order[d]) THEN "combine" ELSE "collect"]

\* lines 83-92, one iteration: future.result() blocks until the future is
\* done.  A returned result is stored (line 87); a raised exception is turned
\* into an error entry (lines 88-92).  A KeyError of line 87 (no record for
\* task_id) is caught by the same except clause: see ProcHandler.
ProcCollect(d) ==
    /\ dpc[d] = "collect"
    /\ LET n == d_order[d][d_i[d]]
           f == d_futures[d][n]
       IN /\ f.done
          /\ IF d_task_id[d] \in DOMAIN results
             THEN /\ results' = write_entry(results, d_task_id[d], n, f.value)
                  /\ advance(d)
                  /\ UNCHANGED d_exc
             ELSE IF f.raised
             THEN \* line 89 raises KeyError inside the except clause
                  /\ dpc' = [dpc EXCEPT ![d] = "raised"]
                  /\ d_exc' = [d_exc EXCEPT ![d] = "KeyError"]
                  /\ UNCHANGED <<results, d_i>>
             ELSE \* line 87 raises KeyError, caught at line 88
                  /\ dpc' = [dpc EXCEPT ![d] = "handler"]
                  /\ UNCHANGED <<results, d_i, d_exc>>
    /\ UNCHANGED <<reply, clock, assistants, avars, cvars, faults, task_queue, heap, d_task_id, d_order,
                   d_futures, svars, returned, routed, combined, started, fb>>

\* lines 89-92 after a KeyError of line 87: the error entry is written if
\* the record exists by now, else the KeyError leaves process_tasks.
ProcHandler(d) ==
    /\ dpc[d] = "handler"
    /\ IF d_task_id[d] \in DOMAIN results
       THEN /\ results' = write_entry(results, d_task_id[d],
                              d_order[d][d_i[d]], error_entry("key_error"))
            /\ advance(d)
            /\ UNCHANGED d_exc
       ELSE /\ dpc' = [dpc EXCEPT ![d] = "raised"]
            /\ d_exc' = [d_exc EXCEPT ![d] = "KeyError"]
            /\ UNCHANGED <<results, d_i>>
    /\ UNCHANGED <<reply, clock, assistants, avars, cvars, faults, task_queue, heap, d_task_id, d_order,
                   d_futures, svars, returned, routed, combined, started, fb>>

\* The entries of the dictionary the local assistant_results of d refers to.
assistant_results_of(d) ==
    IF d_assistant_results[d].attached
    THEN results[d_task_id[d]].assistant_results
    ELSE d_assistant_results[d].value

\* A combination that looks for the 'Earth' key only.
next_key_earth_only(dict, k) ==
    IF k = 1 /\ CombineKeys[1] \in DOMAIN dict THEN 1 ELSE 0

\* The first of the three keys, from the k-th on, that the dictionary has (0
\* if it has none): 'Earth' in assistant_results, and so on.
next_key(dict, k) ==
    IF \E j \in k..Len(CombineKeys) : CombineKeys[j] \in DOMAIN dict
    THEN CHOOSE j \in k..Len(CombineKeys) :
            /\ CombineKeys[j] \in DOMAIN dict
            /\ \A i \in k..(j - 1) : CombineKeys[i] \notin DOMAIN dict
    ELSE 0

\* line 95 and lines 107-108: _combine_results is called and reads the
\* record and its assistant_results (KeyError when there is no record).
ProcCombine(d) ==
    /\ dpc[d] = "combine"
    /\ IF d_task_id[d] \in DOMAIN results
       THEN /\ d_assistant_results' =
                  [d_assistant_results EXCEPT ![d] = RecordDictionary]
            /\ dpc' = [dpc EXCEPT ![d] = "all"]
            /\ UNCHANGED d_exc
       ELSE /\ dpc' = [dpc EXCEPT ![d] = "raised"]
            /\ d_exc' = [d_exc EXCEPT ![d] = "KeyError"]
            /\ UNCHANGED d_assistant_results
    \* the futures and the loop index are not used again
    /\ d_futures' = [d_futures EXCEPT ![d] = <<>>]
    /\ d_order' = [d_order EXCEPT ![d] = <<>>]
    /\ d_i' = [d_i EXCEPT ![d] = 0]
    /\ UNCHANGED <<reply, clock, assistants, avars, faults, task_queue, heap, results,
                   d_task, d_task_id, d_combined_result, svars, returned,
                   routed, combined, started, fb>>

\* lines 111-121: all(...) reads the entries and combined_result is built
\* with its status, its timestamp and the dictionary as 'components'.
CombineAll(d) ==
    /\ dpc[d] = "all"
    /\ d_combined_result' = [d_combined_result EXCEPT ![d] =
          [result |-> combined_result(assistant_results_of(d),
                                      d_assistant_results[d].attached),
           k |-> 1]]
    /\ dpc' = [dpc EXCEPT ![d] = "extract"]
    /\ UNCHANGED <<reply, clock, assistants, avars, faults, task_queue, heap, results,
                   d_task, d_task_id, d_order, d_futures, d_i, d_exc,
                   d_assistant_results, svars, returned, routed, combined,
                   started, fb>>

\* lines 124-131, one of the three if statements whose key the dictionary
\* has: the entry is read as it is now and its field copied.
CombineExtract(d) ==
    /\ dpc[d] = "extract"
    /\ LET dict == assistant_results_of(d)
           k == next_key(dict, d_combined_result[d].k)
       IN /\ k # 0
          /\ d_combined_result' = [d_combined_result EXCEPT ![d] =
                [result |-> set_extracted(@.result, k,
                                          extract(dict, CombineKeys[k])),
                 k |-> k + 1]]
    /\ UNCHANGED <<reply, clock, assistants, avars, faults, task_queue, heap, results,
                   dpc, d_task, d_task_id, d_order, d_futures, d_i, d_exc,
                   d_assistant_results, svars, returned, routed, combined,
                   started, fb>>

\* lines 133-134, reached when none of the remaining keys is in the
\* dictionary: status and final_result are written into the record that
\* results[task_id] holds now.
CombineStore(d) ==
    /\ dpc[d] = "extract"
    /\ next_key(assistant_results_of(d), d_combined_result[d].k) = 0
    /\ results' = finalize(results, d_task_id[d],
          [d_combined_result[d].result EXCEPT
              !.aliased = d_assistant_results[d].attached,
              !.components = IF d_assistant_results[d].attached
                             THEN <<>> ELSE d_assistant_results[d].value])
    /\ combined' = [combined EXCEPT ![d_task_id[d]] = @ + 1]
    /\ d_assistant_results' = [d_assistant_results EXCEPT ![d] = NoDictionary]
    /\ d_combined_result' = [d_combined_result EXCEPT ![d] = NotCombining]
    /\ dpc' = [dpc EXCEPT ![d] = "check"]
    /\ UNCHANGED <<reply, clock, assistants, avars, faults, task_queue, heap,
                   d_task, d_task_id, d_order, d_futures, d_i, d_exc, svars,
                   returned, routed, started, fb>>

\* the with block is left (the executor is shut down) and process_tasks returns
ProcExit(d) ==
    /\ dpc[d] = "exit"
    /\ dpc' = [dpc EXCEPT ![d] = "idle"]
    /\ d_task_id' = [d_task_id EXCEPT ![d] = NoId]
    /\ UNCHANGED <<reply, clock, assistants, avars, cvars, faults, task_queue, heap, results,
                   d_order, d_futures, d_i, d_exc, svars, returned, routed,
                   combined, started, fb>>

(***************************************************************************)
(* handle_feedback.                                                        *)
(***************************************************************************)
\* The payloads tried: the keys of feedback.get('assistant_feedback', {}),
\* in the dictionary's order.  "Mercury" is configured but not registered.
FeedbackPayloads == {<<>>, <<"Sun">>, <<"Earth", "Mercury", "Moon">>}

\* An id submit_task never returns within the bounds.
NeverIssued == make_task_id(0, MaxTasks)

\* The ids a caller may pass: those submit_task can return, and NeverIssued.
TaskIds == {make_task_id(t, n) : t \in 0..MaxClock, n \in 0..MaxTasks}

\* mutant of named_registered: the loop ends at the first unregistered name
named_registered_until_unknown(registry, payload) ==
    IF \A k \in 1..Len(payload) : payload[k] \in registry
    THEN payload
    ELSE SubSeq(payload, 1,
                (CHOOSE k \in 1..Len(payload) :
                    /\ payload[k] \notin registry
                    /\ \A j \in 1..(k - 1) : payload[j] \in registry) - 1)

\* line 148: the names of the payload that are in the registry, in order
named_registered(registry, payload) ==
    SelectSeq(payload, LAMBDA n : n \in registry)

\* lines 147-149: the workers whose handle_feedback is called, in order.
\* failing = 0: none of them raises; failing = k: the k-th one called raises
\* and the loop is left by the exception.
called_workers(registry, payload, failing) ==
    IF failing = 0
    THEN named_registered(registry, payload)
    ELSE SubSeq(named_registered(registry, payload), 1, failing)

\* A feedback update that also discards the record's final result.
store_feedback_dropping_final(rec, payload) ==
    [rec EXCEPT !.feedback = [present |-> TRUE, assistant_feedback |-> payload],
                !.status = "completed_with_feedback",
                !.final_result = NoFinal]

\* mutant of store_feedback: feedback already stored is kept
store_feedback_first_wins(rec, payload) ==
    [rec EXCEPT !.feedback = IF rec.feedback.present THEN rec.feedback
                             ELSE [present |-> TRUE, assistant_feedback |-> payload],
                !.status = "completed_with_feedback"]

\* lines 152-153: the feedback is stored and the status set
store_feedback(rec, payload) ==
    [rec EXCEPT !.feedback = [present |-> TRUE, assistant_feedback |-> payload],
                !.status = "completed_with_feedback"]

\* handle_feedback has no return statement: whichever branch is taken, a
\* call that does not raise returns None (which has no 'status').
handle_feedback_result == [none |-> TRUE, status |-> "absent"]

\* A handle_feedback that stores the feedback and the status also when a
\* worker's handle_feedback raised (as in a finally clause).
HandleFeedbackStoringAnyway(limit, task_id, payload, failing) ==
    /\ CallerFree
    /\ fb.calls < limit
    /\ task_id \in DOMAIN results \cup {NeverIssued}
    /\ IF task_id \in DOMAIN results
       THEN /\ failing \in 0..Len(named_registered(assistants, payload))
            /\ results' = [results EXCEPT ![task_id] = store_feedback(@, payload)]
            /\ fb' = [calls |-> fb.calls + 1, task_id |-> task_id, known |-> TRUE,
                      payload |-> payload,
                      delivered |-> called_workers(assistants, payload, failing),
                      raised |-> failing # 0,
                      value |-> IF failing # 0 THEN NoCall.value
                                ELSE handle_feedback_result,
                      before |-> results[task_id].feedback]
       ELSE /\ failing = 0
            /\ results' = results
            /\ fb' = [calls |-> fb.calls + 1, task_id |-> task_id, known |-> FALSE,
                      payload |-> payload, delivered |-> <<>>, raised |-> FALSE,
                      value |-> handle_feedback_result, before |-> NoFeedback]
    /\ reply' = NoReply
    /\ UNCHANGED <<clock, assistants, avars, faults, task_queue, heap, dvars, svars, returned,
                   routed, combined, started>>

\* handle_feedback(task_id, feedback) as one call of the single caller, the
\* calls of a behaviour being fewer than limit.
\* A worker's handle_feedback may raise (SunAssistant and MoonAssistant write
\* their dataset file); the exception is not caught by the orchestrator.
HandleFeedbackWithin(limit, task_id, payload, failing) ==
    /\ CallerFree
    /\ fb.calls < limit
    /\ task_id \in DOMAIN results \cup {NeverIssued}
    /\ IF task_id \in DOMAIN results
       THEN /\ failing \in 0..Len(named_registered(assistants, payload))
            /\ results' = IF failing = 0
                          THEN [results EXCEPT ![task_id] = store_feedback(@, payload)]
                          ELSE results
            /\ fb' = [calls |-> fb.calls + 1, task_id |-> task_id, known |-> TRUE,
                      payload |-> payload,
                      delivered |-> called_workers(assistants, payload, failing),
                      raised |-> failing # 0,
                      value |-> IF failing # 0 THEN NoCall.value
                                ELSE handle_feedback_result,
                      before |-> results[task_id].feedback]
       ELSE /\ failing = 0
            /\ results' = results
            /\ fb' = [calls |-> fb.calls + 1, task_id |-> task_id, known |-> FALSE,
                      payload |-> payload, delivered |-> <<>>, raised |-> FALSE,
                      value |-> handle_feedback_result, before |-> NoFeedback]
    /\ reply' = NoReply
    /\ UNCHANGED <<clock, assistants, avars, faults, task_queue, heap, dvars, svars, returned,
                   routed, combined, started>>

HandleFeedback(task_id, payload, failing) ==
    HandleFeedbackWithin(MaxFeedback, task_id, payload, failing)

\* the same, in the behaviours of SpecFeedback
HandleFeedbackAgain(task_id, payload, failing) ==
    HandleFeedbackWithin(MaxRepeat, task_id, payload, failing)

(***************************************************************************)
(* Status queries.                                                         *)
(***************************************************************************)
\* A status query that stores a pending record for an id it does not find.
GetTaskStatusStoring(task_id) ==
    /\ CallerFree
    /\ results' = IF task_id \in DOMAIN results
                  THEN results
                  ELSE put_record(results, task_id, PendingRecord)
    /\ reply' = [NoReply EXCEPT !.op = "get_task_status",
                                !.task_id = task_id,
                                !.task = get_task_status(results, task_id)]
    /\ fb' = forget_call(fb)
    /\ UNCHANGED <<clock, assistants, avars, faults, task_queue, heap, dvars,
                   svars, returned, routed, combined, started>>

\* get_task_status(task_id) as one call of the single caller
GetTaskStatus(task_id) ==
    /\ CallerFree
    /\ reply' = [NoReply EXCEPT !.op = "get_task_status",
                                !.task_id = task_id,
                                !.task = get_task_status(results, task_id)]
    /\ fb' = forget_call(fb)
    /\ UNCHANGED <<clock, assistants, avars, faults, task_queue, heap, results, dvars,
                   svars, returned, routed, combined, started>>

\* get_system_status() as one call of the single caller
GetSystemStatus ==
    /\ CallerFree
    /\ reply' = [NoReply EXCEPT !.op = "get_system_status",
                                !.system = get_system_status(assistants, task_queue,
                                                             heap, results)]
    /\ fb' = forget_call(fb)
    /\ UNCHANGED <<clock, assistants, avars, faults, task_queue, heap, results, dvars,
                   svars, returned, routed, combined, started>>

(***************************************************************************)
(* Specifications.                                                         *)
(***************************************************************************)
\* One caller thread.
Next ==
    \/ \E o \in Objs, ty \in SubmittedTypes, now \in 0..MaxClock : SubmitTask(o, ty, now)
    \/ \E d \in DispThreads : ProcessTasks(d)
    \/ \E d \in DispThreads : ProcCheck(d)
    \/ \E d \in DispThreads : ProcPop(d)
    \/ \E d \in DispThreads : ProcRead(d)
    \/ \E d \in DispThreads, n \in assistant_classes : WorkerRun(d, n)
    \/ \E d \in DispThreads : ProcCollect(d)
    \/ \E d \in DispThreads : ProcCombine(d)
    \/ \E d \in DispThreads : CombineAll(d)
    \/ \E d \in DispThreads : CombineExtract(d)
    \/ \E d \in DispThreads : CombineStore(d)
    \/ \E d \in DispThreads : ProcExit(d)
    \/ \E task_id \in TaskIds, payload \in FeedbackPayloads, failing \in 0..2 :
          HandleFeedback(task_id, payload, failing)

Spec == Init /\ [][Next]_vars

\* Threads s1, s2 in submit_task and thread d1 in process_tasks, interleaved.
NextConc ==
    \/ \E s \in SubThreads, o \in Objs, ty \in SubmittedTypes, now \in 0..MaxClock :
          SubBegin(s, o, ty, now)
    \/ \E s \in SubThreads : SubLen(s)
    \/ \E s \in SubThreads : SubStamp(s)
    \/ \E s \in SubThreads : SubAppend(s)
    \/ \E s \in SubThreads : SubRecord(s)
    \/ \E d \in DispThreads : ProcBegin(d)
    \/ \E d \in DispThreads : ProcCheck(d)
    \/ \E d \in DispThreads : ProcPop(d)
    \/ \E d \in DispThreads : ProcRead(d)
    \/ \E d \in DispThreads, n \in assistant_classes : WorkerRun(d, n)
    \/ \E d \in DispThreads : ProcCollect(d)
    \/ \E d \in DispThreads : ProcHandler(d)
    \/ \E d \in DispThreads : ProcCombine(d)
    \/ \E d \in DispThreads : CombineAll(d)
    \/ \E d \in DispThreads : CombineExtract(d)
    \/ \E d \in DispThreads : CombineStore(d)
    \/ \E d \in DispThreads : ProcExit(d)

SpecConc == Init /\ [][NextConc]_vars

\* One caller thread, the orchestrator built from one of several
\* configurations: the ASSISTANTS of config.py, the same without "Sun", and
\* one that names no implemented assistant (the registry is then empty).
Configs == {ASSISTANTS, ASSISTANTS \ {"Sun"}, ASSISTANTS \ assistant_classes}

InitReg == \E config \in Configs : InitWith(config)

SpecReg == InitReg /\ [][Next]_vars

\* One caller thread that also makes status queries between its operations.
NextQuery ==
    \/ Next
    \/ \E task_id \in TaskIds : GetTaskStatus(task_id)
    \/ GetSystemStatus

SpecQuery == Init /\ [][NextQuery]_vars

\* One caller thread that submits tasks of the types of FeedbackTaskTypes and
\* gives feedback up to MaxRepeat times.
FeedbackTaskTypes == {"code_generation", "syntax_check"}

NextFeedback ==
    \/ \E o \in Objs, ty \in FeedbackTaskTypes, now \in 0..MaxClock :
          SubmitTask(o, ty, now)
    \/ \E d \in DispThreads : ProcessTasks(d)
    \/ \E d \in DispThreads : ProcCheck(d)
    \/ \E d \in DispThreads : ProcPop(d)
    \/ \E d \in DispThreads : ProcRead(d)
    \/ \E d \in DispThreads, n \in assistant_classes : WorkerRun(d, n)
    \/ \E d \in DispThreads : ProcCollect(d)
    \/ \E d \in DispThreads : ProcCombine(d)
    \/ \E d \in DispThreads : CombineAll(d)
    \/ \E d \in DispThreads : CombineExtract(d)
    \/ \E d \in DispThreads : CombineStore(d)
    \/ \E d \in DispThreads : ProcExit(d)
    \/ \E task_id \in TaskIds, payload \in FeedbackPayloads, failing \in 0..2 :
          HandleFeedbackAgain(task_id, payload, failing)

SpecFeedback == Init /\ [][NextFeedback]_vars

\* submit_task alone, over every value of task.get('type', '').
NextRoute ==
    \E o \in Objs, ty \in TaskTypes, now \in 0..MaxClock : SubmitTask(o, ty, now)

SpecRoute == Init /\ [][NextRoute]_vars

\* One caller thread whose workers may also never return.  process_tasks,
\* once called, keeps running: every enabled step of the dispatch loop is
\* eventually taken, and every submitted future is picked up by a pool
\* thread, where its call returns, raises or blocks.
HangTaskTypes == {"code_generation", "full_pipeline"}

NextHang ==
    \/ \E o \in Objs, ty \in HangTaskTypes, now \in 0..MaxClock : SubmitTask(o, ty, now)
    \/ \E d \in DispThreads : ProcessTasks(d)
    \/ \E d \in DispThreads : ProcCheck(d)
    \/ \E d \in DispThreads : ProcPop(d)
    \/ \E d \in DispThreads : ProcRead(d)
    \/ \E d \in DispThreads, n \in assistant_classes : WorkerRun(d, n)
    \/ \E d \in DispThreads, n \in assistant_classes : WorkerBlock(d, n)
    \/ \E d \in DispThreads : ProcCollect(d)
    \/ \E d \in DispThreads : ProcCombine(d)
    \/ \E d \in DispThreads : CombineAll(d)
    \/ \E d \in DispThreads : CombineExtract(d)
    \/ \E d \in DispThreads : CombineStore(d)
    \/ \E d \in DispThreads : ProcExit(d)

FairHang ==
    /\ \A d \in DispThreads :
          /\ WF_vars(ProcCheck(d))
          /\ WF_vars(ProcPop(d))
          /\ WF_vars(ProcRead(d))
          /\ WF_vars(ProcCollect(d))
          /\ WF_vars(ProcCombine(d))
          /\ WF_vars(CombineAll(d))
          /\ WF_vars(CombineExtract(d))
          /\ WF_vars(CombineStore(d))
          /\ WF_vars(ProcExit(d))
    /\ \A d \in DispThreads, n \in assistant_classes :
          WF_vars(WorkerRun(d, n) \/ WorkerBlock(d, n))

SpecHang == Init /\ [][NextHang]_vars /\ FairHang

\* Two threads that call process_tasks on one orchestrator while the caller
\* submits tasks only between the calls.
ProcThreads == {"d1", "d2"}

PairTaskTypes == {"code_generation", "syntax_check"}

InitTwo ==
    /\ NoAssistantLoop
    /\ clock = 0
    /\ assistants = initialize_assistants(ASSISTANTS)
    /\ task_queue = <<>>
    /\ heap = [o \in Objs |-> FreshDict]
    /\ results = <<>>
    /\ dpc = [d \in ProcThreads |-> "idle"]
    /\ d_task = [d \in ProcThreads |-> NoTask]
    /\ d_task_id = [d \in ProcThreads |-> NoId]
    /\ d_order = [d \in ProcThreads |-> <<>>]
    /\ d_futures = [d \in ProcThreads |-> <<>>]
    /\ d_i = [d \in ProcThreads |-> 0]
    /\ d_exc = [d \in ProcThreads |-> "none"]
    /\ d_assistant_results = [d \in ProcThreads |-> NoDictionary]
    /\ d_combined_result = [d \in ProcThreads |-> NotCombining]
    /\ spc = [s \in SubThreads |-> "idle"]
    /\ s_now = [s \in SubThreads |-> 0]
    /\ s_obj = [s \in SubThreads |-> "o1"]
    /\ s_id = [s \in SubThreads |-> NoId]
    /\ returned = <<>>
    /\ routed = <<>>
    /\ combined = <<>>
    /\ started = 0
    /\ fb = NoCall
    /\ faults = 0
    /\ reply = NoReply

\* submit_task called while no process_tasks call is running
SubmitBetweenCalls(o, ty, now) ==
    /\ \A d \in ProcThreads : dpc[d] \in {"idle", "raised"}
    /\ SubmitTask(o, ty, now)

NextTwo ==
    \/ \E o \in Objs, ty \in PairTaskTypes, now \in 0..MaxClock :
          SubmitBetweenCalls(o, ty, now)
    \/ \E d \in ProcThreads : ProcBegin(d)
    \/ \E d \in ProcThreads : ProcCheck(d)
    \/ \E d \in ProcThreads : ProcPop(d)
    \/ \E d \in ProcThreads : ProcRead(d)
    \/ \E d \in ProcThreads, n \in assistant_classes : WorkerRun(d, n)
    \/ \E d \in ProcThreads : ProcCollect(d)
    \/ \E d \in ProcThreads : ProcCombine(d)
    \/ \E d \in ProcThreads : CombineAll(d)
    \/ \E d \in ProcThreads : CombineExtract(d)
    \/ \E d \in ProcThreads : CombineStore(d)
    \/ \E d \in ProcThreads : ProcExit(d)

SpecTwo == InitTwo /\ [][NextTwo]_vars

\* examples/run_examples.py, run_single_task: thread s submits one task
\* (line 37) and then polls get_task_status every five seconds (lines 41-50)
\* until the status is one of ExitStatuses.  run_examples.py never calls
\* process_tasks; another thread may or may not call it.
ExampleThreads == {"s1"}

\* line 45
ExitStatuses == {"success", "error", "completed_with_feedback"}

\* line 37: system.submit_task(task), entered once
RunSubmit(s, o, ty, now) ==
    /\ started = 0
    /\ SubBegin(s, o, ty, now)

\* lines 42-50, one iteration: the status is read; the loop is left by break
\* when it is an exit status, else the thread sleeps and reads again.
RunPoll(s) ==
    /\ spc[s] = "idle"
    /\ Len(returned) = 1
    /\ LET status == get_task_status(results, returned[1])
       IN /\ reply' = [NoReply EXCEPT !.op = "get_task_status",
                                      !.task_id = returned[1],
                                      !.task = status]
          /\ spc' = [spc EXCEPT ![s] = IF status.status \in ExitStatuses
                                       THEN "returned" ELSE "idle"]
    /\ UNCHANGED <<clock, assistants, avars, s_now, faults, task_queue, heap, results, dvars,
                   s_obj, s_id, returned, routed, combined, started, fb>>

NextExample ==
    \/ \E s \in ExampleThreads, o \in Objs, ty \in SubmittedTypes, now \in 0..MaxClock :
          RunSubmit(s, o, ty, now)
    \/ \E s \in ExampleThreads : SubLen(s)
    \/ \E s \in ExampleThreads : SubStamp(s)
    \/ \E s \in ExampleThreads : SubAppend(s)
    \/ \E s \in ExampleThreads : SubRecord(s)
    \/ \E s \in ExampleThreads : RunPoll(s)
    \/ \E d \in DispThreads : ProcBegin(d)
    \/ \E d \in DispThreads : ProcCheck(d)
    \/ \E d \in DispThreads : ProcPop(d)
    \/ \E d \in DispThreads : ProcRead(d)
    \/ \E d \in DispThreads, n \in assistant_classes : WorkerRun(d, n)
    \/ \E d \in DispThreads : ProcCollect(d)
    \/ \E d \in DispThreads : ProcHandler(d)
    \/ \E d \in DispThreads : ProcCombine(d)
    \/ \E d \in DispThreads : CombineAll(d)
    \/ \E d \in DispThreads : CombineExtract(d)
    \/ \E d \in DispThreads : CombineStore(d)
    \/ \E d \in DispThreads : ProcExit(d)

\* Every thread that is running keeps running; nothing obliges anyone to
\* call process_tasks.
FairExample ==
    /\ \A s \in ExampleThreads :
          /\ WF_vars(SubLen(s))
          /\ WF_vars(SubStamp(s))
          /\ WF_vars(SubAppend(s))
          /\ WF_vars(SubRecord(s))
          /\ WF_vars(RunPoll(s))
    /\ \A d \in DispThreads :
          /\ WF_vars(ProcCheck(d))
          /\ WF_vars(ProcPop(d))
          /\ WF_vars(ProcRead(d))
          /\ WF_vars(ProcCollect(d))
          /\ WF_vars(ProcHandler(d))
          /\ WF_vars(ProcCombine(d))
          /\ WF_vars(CombineAll(d))
          /\ WF_vars(CombineExtract(d))
          /\ WF_vars(CombineStore(d))
          /\ WF_vars(ProcExit(d))
    /\ \A d \in DispThreads, n \in assistant_classes : WF_vars(WorkerRun(d, n))

SpecExample == Init /\ [][NextExample]_vars /\ FairExample

(***************************************************************************)
(* Properties.                                                             *)
(***************************************************************************)
\* The record a process_tasks call has just finalized: between
\* _combine_results and the next pop, d_task_id is the id of that record.
JustFinalized(d) == dpc[d] = "check" /\ d_task_id[d] # NoId

\* C1: when _combine_results has finalized a task, its status is success if
\* and only if every entry of its result map has status success, and
\* partial_success in every other case; the final result carries the same
\* status.
C1_AggregationLaw ==
    \A d \in DispThreads :
        JustFinalized(d) =>
            LET rec == results[d_task_id[d]]
                ar == rec.assistant_results
            IN /\ rec.status = "success" <=>
                      (\A n \in DOMAIN ar : ar[n].status = "success")
               /\ rec.status # "success" => rec.status = "partial_success"
               /\ rec.final_result.present
               /\ rec.final_result.status = rec.status

\* C1 witness: a task all three of whose workers failed has just been
\* finalized as partial_success.
C1_Witness ==
    \E d \in DispThreads :
        /\ JustFinalized(d)
        /\ LET rec == results[d_task_id[d]]
           IN /\ DOMAIN rec.assistant_results = {"Earth", "Moon", "Sun"}
              /\ \A n \in DOMAIN rec.assistant_results :
                    rec.assistant_results[n].status = "error"
              /\ rec.status = "partial_success"

\* The futures of call d have all been collected (the call is about to run
\* _combine_results).
Collected(d) == dpc[d] = "combine"

\* C2: in process_tasks a failing invocation (process_task raised, or the
\* worker is not registered) is recorded as an error entry carrying the
\* message, every other worker's result is recorded as it was returned; a
\* task with exactly one error entry and success entries otherwise is
\* finalized as partial_success; and process_tasks raises nothing once it
\* has an executor (the only exception is the ValueError of an empty
\* registry, before any task is dequeued).
C2_WorkerIsolation ==
    \A d \in DispThreads :
        /\ Collected(d) =>
              LET ar == results[d_task_id[d]].assistant_results
              IN \A n \in Range(d_order[d]) :
                    /\ n \in DOMAIN ar
                    /\ IF d_futures[d][n].raised
                       THEN /\ ar[n].status = "error"
                            /\ ar[n].error \in {"exception_message", "assistant_not_found"}
                            /\ n \notin assistants <=> ar[n].error = "assistant_not_found"
                       ELSE ar[n] = d_futures[d][n].value
        /\ JustFinalized(d) =>
              LET rec == results[d_task_id[d]]
                  ar == rec.assistant_results
              IN (\E bad \in DOMAIN ar :
                     /\ ar[bad].status = "error"
                     /\ \A n \in DOMAIN ar \ {bad} : ar[n].status = "success")
                 => rec.status = "partial_success"
        /\ dpc[d] = "raised" => (d_exc[d] = "ValueError" /\ assistants = {})

\* C2 witness: a full_pipeline task was finalized as partial_success with
\* Earth and Moon recorded as success and the unregistered Sun as the error
\* entry of the ValueError.
C2_Witness ==
    \E d \in DispThreads :
        /\ JustFinalized(d)
        /\ LET rec == results[d_task_id[d]]
               ar == rec.assistant_results
           IN /\ DOMAIN ar = {"Earth", "Moon", "Sun"}
              /\ ar["Earth"] = WorkerSuccess
              /\ ar["Moon"] = WorkerSuccess
              /\ ar["Sun"] = error_entry("assistant_not_found")
              /\ rec.status = "partial_success"

\* C3: a record whose final_result is present has an entry for every worker
\* assigned to the task and for no other; final_result.components holds
\* exactly those entries, failed workers being present as error entries.
C3_NoPartialAggregation ==
    \A id \in DOMAIN results :
        results[id].final_result.present =>
            /\ DOMAIN results[id].assistant_results = Range(routed[id])
            /\ DOMAIN components(results[id]) = Range(routed[id])
            /\ \A n \in Range(routed[id]) :
                  components(results[id])[n].status
                      \in {"success", "partial_success", "error"}

\* C3 witness: a finalized full_pipeline record holds the entries of its
\* three workers, one of them the error entry of a raised exception.
C3_Witness ==
    \E id \in DOMAIN results :
        /\ results[id].final_result.present
        /\ routed[id] = <<"Earth", "Moon", "Sun">>
        /\ DOMAIN components(results[id]) = {"Earth", "Moon", "Sun"}
        /\ components(results[id])["Moon"] = error_entry("exception_message")

\* C4: all the task ids submit_task has returned are pairwise distinct.
C4_UniqueTaskIds ==
    \A i, j \in 1..Len(returned) : i # j => returned[i] # returned[j]

\* C5: when N concurrent submit_task calls have all returned and nothing has
\* been dequeued yet, the N ids are pairwise distinct and N records exist.
C5_ConcurrentSubmitDistinct ==
    (/\ \A s \in SubThreads : spc[s] = "idle"
     /\ Len(task_queue) = started)
    => /\ \A i, j \in 1..Len(returned) : i # j => returned[i] # returned[j]
       /\ Cardinality(DOMAIN results) = Len(returned)

\* C6: with submit_task running concurrently with process_tasks, a dequeued
\* task has its record, process_tasks never fails with the KeyError of a
\* missing record, and the record write of a running submit_task never
\* resets a record that is already finalized.
C6_RecordPresentWhenDequeued ==
    [][/\ \A d \in DispThreads :
             /\ dpc'[d] \in {"collect", "handler", "combine"}
                   => d_task_id'[d] \in DOMAIN results'
             /\ d_exc'[d] # "KeyError"
       /\ \A s \in SubThreads :
             (/\ spc[s] = "record"
              /\ spc'[s] = "idle"
              /\ s_id[s] \in DOMAIN results
              /\ results[s_id[s]].final_result.present)
             => results'[s_id[s]].final_result.present]_vars

\* C7: a process_tasks call stops dequeuing only at a check that finds the
\* queue empty (it is not ended by an exception), and at that check every
\* task enqueued so far, i.e. every record of the store, has been finalized.
C7_DrainsEveryTask ==
    [][\A d \in DispThreads :
          /\ dpc'[d] # "raised"
          /\ (dpc[d] = "check" /\ dpc'[d] = "exit")
                => \A id \in DOMAIN results : results[id].final_result.present]_vars

\* C8: a status changes only from pending to success, partial_success or
\* error, or from one of these three to completed_with_feedback; a status
\* completed_with_feedback never changes.
C8_StatusLifecycle ==
    [][\A id \in DOMAIN results :
          LET before == results[id].status
              after == results'[id].status
          IN before # after =>
                \/ /\ before = "pending"
                   /\ after \in {"success", "partial_success", "error"}
                \/ /\ before \in {"success", "partial_success", "error"}
                   /\ after = "completed_with_feedback"]_vars

\* C9: _combine_results runs at most once for a task id, and a final_result
\* that is set is neither replaced nor cleared by a later step.
C9_FinalizedOnce ==
    [][/\ \A id \in DOMAIN combined' : combined'[id] <= 1
       /\ \A id \in DOMAIN results :
             results[id].final_result.present
                => results'[id].final_result = results[id].final_result]_vars

\* C10: in the state submit_task returns in, get_task_status of the returned
\* id has status pending, an empty result map and no final result.
C10_PendingAfterSubmit ==
    [][Len(returned') > Len(returned) =>
          LET status == get_task_status(results', returned'[Len(returned')])
          IN /\ status.status = "pending"
             /\ DOMAIN status.assistant_results = {}
             /\ ~status.final_result.present]_vars

\* C10 witness: submit_task has just returned an id whose earlier record had
\* been finalized (the id was issued before), and the record is pending.
C10_Witness ==
    /\ CallerFree
    /\ Len(returned) > 0
    /\ LET id == returned[Len(returned)]
       IN /\ combined[id] > 0
          /\ Len(task_queue) > 0
          /\ heap[task_queue[Len(task_queue)]].task_id = id
          /\ get_task_status(results, id).status = "pending"
          /\ DOMAIN get_task_status(results, id).assistant_results = {}
          /\ ~get_task_status(results, id).final_result.present

\* C11: every submitted dictionary is assigned <<Earth>> for code_generation,
\* <<Moon>> for syntax_check, <<Sun>> for performance_optimization,
\* <<Earth, Moon, Sun>> for full_pipeline and <<Earth>> for any other type
\* and for a missing one; the assignment is never empty, and two
\* dictionaries of the same type have the same assignment.
C11_RoutingTable ==
    /\ \A o \in Objs :
          heap[o].used =>
             LET ty == heap[o].type
                 assigned == heap[o].assigned_assistants
             IN /\ Len(assigned) > 0
                /\ ty = "code_generation" => assigned = <<"Earth">>
                /\ ty = "syntax_check" => assigned = <<"Moon">>
                /\ ty = "performance_optimization" => assigned = <<"Sun">>
                /\ ty = "full_pipeline" => assigned = <<"Earth", "Moon", "Sun">>
                /\ ty \notin {"code_generation", "syntax_check",
                               "performance_optimization", "full_pipeline"}
                      => assigned = <<"Earth">>
    /\ \A o1, o2 \in Objs :
          (heap[o1].used /\ heap[o2].used /\ heap[o1].type = heap[o2].type)
             => heap[o1].assigned_assistants = heap[o2].assigned_assistants

\* C11 witness: a dictionary without a type and one of type
\* performance_optimization have been submitted and are queued with the
\* default and the mapped assignment.
C11_Witness ==
    /\ Len(task_queue) = 2
    /\ heap[task_queue[1]].type = ""
    /\ heap[task_queue[1]].assigned_assistants = <<"Earth">>
    /\ heap[task_queue[2]].type = "performance_optimization"
    /\ heap[task_queue[2]].assigned_assistants = <<"Sun">>

\* C12: in the step in which a process_tasks call of the single caller
\* returns, the pending queue is empty and every record has status success or
\* partial_success (or completed_with_feedback, for a task finalized by an
\* earlier call and given feedback since) and holds an entry for each worker
\* assigned to its task.
C12_AllProcessedOnReturn ==
    [][\A d \in DispThreads :
          (dpc[d] = "exit" /\ dpc'[d] = "idle") =>
             /\ task_queue' = <<>>
             /\ \A id \in DOMAIN results' :
                   /\ \/ results'[id].status \in {"success", "partial_success"}
                      \/ /\ results'[id].status = "completed_with_feedback"
                         /\ results'[id].final_result.present
                   /\ DOMAIN results'[id].assistant_results = Range(routed'[id])]_vars

\* C13: the status of every record is pending, success, partial_success or
\* completed_with_feedback; whatever the workers did, it is never error.
C13_NoTaskLevelError ==
    \A id \in DOMAIN results :
        /\ results[id].status
              \in {"pending", "success", "partial_success", "completed_with_feedback"}
        /\ results[id].final_result.present
              => results[id].final_result.status \in {"success", "partial_success"}

\* C13 witness: a finalized task whose three workers all failed, one by
\* raising and two by returning an error status, is partial_success.
C13_Witness ==
    \E id \in DOMAIN results :
        /\ results[id].final_result.present
        /\ DOMAIN results[id].assistant_results = {"Earth", "Moon", "Sun"}
        /\ results[id].assistant_results["Earth"] = error_entry("exception_message")
        /\ results[id].assistant_results["Moon"] = WorkerError
        /\ results[id].assistant_results["Sun"] = WorkerError
        /\ results[id].status = "partial_success"

\* C14: a get_task_status call changes no record and creates none; for an
\* id submit_task has returned it answers with that task's record, and for
\* an id without a record with the value of status not_found that carries
\* the message naming the id.
C14_StatusQueryTotal ==
    [][reply'.op = "get_task_status" =>
          LET task_id == reply'.task_id
          IN /\ results' = results
             /\ (\E k \in 1..Len(returned) : returned[k] = task_id)
                   => reply'.task = results[task_id]
             /\ task_id \notin DOMAIN results
                   => /\ reply'.task.status = "not_found"
                      /\ reply'.task.error = <<"Task", task_id, "not found">>
                      /\ task_id \notin DOMAIN results']_vars

\* C14 witness: with one task finalized, the caller has just asked for an id
\* that was never issued and got the not-found value.
C14_Witness ==
    /\ reply.op = "get_task_status"
    /\ reply.task_id = NeverIssued
    /\ reply.task.status = "not_found"
    /\ \E id \in DOMAIN results : results[id].final_result.present
    /\ NeverIssued \notin DOMAIN results

\* C15: a handle_feedback call with an id that has no record does not raise
\* and returns a value of status not_found.
C15_FeedbackUnknownTaskNotFound ==
    (fb.task_id # NoId /\ ~fb.known) =>
        /\ ~fb.raised
        /\ ~fb.value.none
        /\ fb.value.status = "not_found"

\* C16: after a handle_feedback call on an existing task, an exception can
\* only have come from the handle_feedback of a registered worker that was
\* called (never from a name missing in the registry); a call that returned
\* has delivered to exactly the registered workers named in the payload,
\* stored the payload on the record and set its status to
\* completed_with_feedback.
C16_UnregisteredWorkerSkipped ==
    (fb.task_id # NoId /\ fb.known) =>
        IF fb.raised
        THEN /\ Len(fb.delivered) > 0
             /\ fb.delivered[Len(fb.delivered)] \in assistants
        ELSE /\ Range(fb.delivered) = Range(fb.payload) \cap assistants
             /\ Len(fb.delivered) = Cardinality(Range(fb.payload) \cap assistants)
             /\ results[fb.task_id].feedback.present
             /\ results[fb.task_id].feedback.assistant_feedback = fb.payload
             /\ results[fb.task_id].status = "completed_with_feedback"

\* C16 witness: feedback naming Earth, the unregistered Mercury and Moon was
\* given for a finalized task; Earth and Moon received theirs and the status
\* is completed_with_feedback.
C16_Witness ==
    /\ fb.known
    /\ ~fb.raised
    /\ fb.payload = <<"Earth", "Mercury", "Moon">>
    /\ "Mercury" \notin assistants
    /\ fb.delivered = <<"Earth", "Moon">>
    /\ results[fb.task_id].final_result.present
    /\ results[fb.task_id].feedback.assistant_feedback = fb.payload
    /\ results[fb.task_id].status = "completed_with_feedback"

\* C17: handle_feedback delivers only to workers assigned to the task.
C17_FeedbackOnlyToAssigned ==
    (fb.task_id # NoId /\ fb.known) =>
        Range(fb.delivered) \subseteq Range(routed[fb.task_id])

\* C18: a handle_feedback call on an existing task that returns leaves the
\* record with status completed_with_feedback and with the payload of this
\* call as its stored feedback, whatever was stored before; it changes
\* nothing else of the record and no other record; and when the record
\* already had that status and that payload it is left exactly as it was.
C18_FeedbackLastWriteWins ==
    [][(fb'.calls = fb.calls + 1 /\ fb'.known /\ ~fb'.raised) =>
          LET task_id == fb'.task_id
          IN /\ results'[task_id].status = "completed_with_feedback"
             /\ results'[task_id].feedback.present
             /\ results'[task_id].feedback.assistant_feedback = fb'.payload
             /\ results'[task_id].assistant_results = results[task_id].assistant_results
             /\ results'[task_id].final_result = results[task_id].final_result
             /\ DOMAIN results' = DOMAIN results
             /\ \A other \in DOMAIN results \ {task_id} :
                   results'[other] = results[other]
             /\ (/\ results[task_id].status = "completed_with_feedback"
                 /\ results[task_id].feedback.present
                 /\ results[task_id].feedback.assistant_feedback = fb'.payload)
                   => results' = results]_vars

\* C18 witness: a third handle_feedback call has just replaced the feedback
\* stored by an earlier call on the same finalized task with another payload.
C18_Witness ==
    /\ fb.calls = 3
    /\ fb.known
    /\ ~fb.raised
    /\ fb.before.present
    /\ fb.before.assistant_feedback # fb.payload
    /\ results[fb.task_id].final_result.present
    /\ results[fb.task_id].feedback.assistant_feedback = fb.payload
    /\ results[fb.task_id].status = "completed_with_feedback"

\* C19: in every step, completed_tasks of get_system_status grows by the
\* number of records (0 or 1) whose status enters success, partial_success
\* or completed_with_feedback from outside these three, and a status query
\* leaves it unchanged.
C19_CompletedCountsFirstCompletion ==
    [][LET finished == {"success", "partial_success", "completed_with_feedback"}
           before == get_system_status(assistants, task_queue, heap, results)
           after == get_system_status(assistants', task_queue', heap', results')
           entering == {id \in DOMAIN results' :
                          /\ results'[id].status \in finished
                          /\ id \in DOMAIN results => results[id].status \notin finished}
       IN /\ after.completed_tasks = before.completed_tasks + Cardinality(entering)
          /\ reply'.op # "none" => after.completed_tasks = before.completed_tasks]_vars

\* C20: completed_tasks of get_system_status, computed in any state and as
\* returned by the call, is the number of records of status success or
\* completed_with_feedback.
C20_CompletedTasksCount ==
    LET counted == {id \in DOMAIN results :
                       \/ results[id].status = "success"
                       \/ results[id].status = "completed_with_feedback"}
    IN /\ get_system_status(assistants, task_queue, heap, results).completed_tasks
             = Cardinality(counted)
       /\ reply.op = "get_system_status"
             => reply.system.completed_tasks = Cardinality(counted)

\* C20 witness: get_system_status has just reported one completed task, the
\* store holding one record of status completed_with_feedback and one of
\* status partial_success.
C20_Witness ==
    /\ reply.op = "get_system_status"
    /\ reply.system.completed_tasks = 1
    /\ \E id1, id2 \in DOMAIN results :
          /\ results[id1].status = "completed_with_feedback"
          /\ results[id2].status = "partial_success"

\* C21: get_system_status reports pending_tasks equal to the length of the
\* pending queue and, for each registered worker, a current_load equal to the
\* number of queue entries whose assigned list names that worker; this holds
\* of the value computed in any state and of the value the call returned.
C21_PendingAndLoad ==
    LET now == get_system_status(assistants, task_queue, heap, results)
        naming(n) == {k \in 1..Len(task_queue) :
                        n \in Range(heap[task_queue[k]].assigned_assistants)}
        right(s) == /\ s.pending_tasks = Len(task_queue)
                    /\ DOMAIN s.assistant_status = assistants
                    /\ \A n \in assistants :
                          s.assistant_status[n].current_load = Cardinality(naming(n))
    IN /\ right(now)
       /\ reply.op = "get_system_status" => right(reply.system)

\* C21 witness: get_system_status has just reported two pending tasks, a
\* code_generation task and a full_pipeline task, with loads Earth 2, Moon 1
\* and Sun 1.
C21_Witness ==
    /\ reply.op = "get_system_status"
    /\ reply.system.pending_tasks = 2
    /\ Len(task_queue) = 2
    /\ heap[task_queue[1]].type # heap[task_queue[2]].type
    /\ reply.system.assistant_status["Earth"].current_load = 2
    /\ reply.system.assistant_status["Moon"].current_load = 1
    /\ reply.system.assistant_status["Sun"].current_load = 1

\* C22: get_task_status and get_system_status are read-only: a step that
\* returns from either leaves the pending queue, the task dicts, every task
\* record and the registry unchanged, and a query that follows the same query
\* with the same argument returns the same value.
C22_QueriesReadOnly ==
    [][reply'.op # "none" =>
          /\ task_queue' = task_queue
          /\ heap' = heap
          /\ results' = results
          /\ assistants' = assistants
          /\ (reply.op = reply'.op /\ reply.task_id = reply'.task_id)
                => reply' = reply]_vars

\* C22 witness: get_task_status has just returned the finalized record of a
\* task while another task is pending in the queue.
C22_Witness ==
    /\ reply.op = "get_task_status"
    /\ reply.task_id \in DOMAIN results
    /\ reply.task = results[reply.task_id]
    /\ reply.task.final_result.present
    /\ task_queue # <<>>

\* C23: process_tasks dequeues tasks in the order submit_task enqueued them.
\* Every step that changes the pending queue is either a submission, which
\* puts the dict carrying the id it returns at the tail, or a dequeue, which
\* removes the entry at the head, the oldest one, takes that entry's id and
\* starts exactly the workers assigned to that entry; so of two queue entries
\* the one enqueued first is dequeued, and its workers are started, first.
C23_DequeuesInSubmissionOrder ==
    [][/\ \/ task_queue' = task_queue
          \/ /\ Len(returned') = Len(returned) + 1
             /\ \E o \in Objs :
                   /\ task_queue' = Append(task_queue, o)
                   /\ heap'[o].task_id = returned'[Len(returned')]
          \/ /\ task_queue # <<>>
             /\ task_queue' = Tail(task_queue)
             /\ returned' = returned
             /\ \E d \in DispThreads :
                   /\ dpc[d] = "pop" /\ dpc'[d] = "read"
                   /\ d_task'[d] = Head(task_queue)
       /\ \A d \in DispThreads :
             (dpc[d] = "read" /\ dpc'[d] # "read") =>
                LET task == heap[d_task[d]]
                IN /\ dpc'[d] = "collect"
                   /\ task_queue' = task_queue
                   /\ d_task_id'[d] = task.task_id
                   /\ d_order'[d] = task.assigned_assistants
                   /\ d_futures'[d] = [n \in Range(task.assigned_assistants) |-> Running]
                   /\ \A n \in Range(task.assigned_assistants) :
                         ~d_futures'[d][n].done]_vars

\* C23 witness: of two tasks submitted under different ids the first has been
\* dequeued and its workers started while the second is still in the queue.
C23_Witness ==
    \E d \in DispThreads :
        /\ dpc[d] = "collect"
        /\ Len(returned) = 2
        /\ returned[1] # returned[2]
        /\ d_task_id[d] = returned[1]
        /\ DOMAIN d_futures[d] # {}
        /\ Len(task_queue) = 1
        /\ heap[task_queue[1]].task_id = returned[2]

\* C24: the set of worker names present in a task's result map only grows: no
\* step removes an entry that has been added under a task id or resets the
\* map of that id.
C24_ResultMapOnlyGrows ==
    [][\A id \in DOMAIN results :
          /\ id \in DOMAIN results'
          /\ DOMAIN results[id].assistant_results
                \subseteq DOMAIN results'[id].assistant_results]_vars

\* C25: if the process_task call of an assigned worker never returns, the
\* invocation is eventually recorded as an error result with reason timeout
\* and the task is finalized, so the dispatch loop leaves the task's barrier.
C25_BlockedWorkerTimesOut ==
    (\E d \in DispThreads, n \in assistant_classes :
        n \in DOMAIN d_futures[d] /\ d_futures[d][n] = Blocked)
    ~> (\E id \in DOMAIN results :
          /\ results[id].final_result.present
          /\ \E n \in DOMAIN results[id].assistant_results :
                results[id].assistant_results[n] = error_entry("timeout"))

\* C26: a task's finalized record depends only on the results its workers
\* return, not on the order in which they complete.  A worker that completes
\* writes nothing to the records; each collection step writes the entry of
\* the next worker in dispatch order with the value its future holds; when
\* the collection loop is over the result map is the map of the futures'
\* values; and the finalized status and extracted fields are a function of
\* that map.  The steps are checked over every interleaving of completions.
C26_CompletionOrderIrrelevant ==
    [][\A d \in DispThreads :
          LET id == d_task_id[d]
              n == d_order[d][d_i[d]]
              ar == results[id].assistant_results
              ar2 == results'[id].assistant_results
              fr2 == results'[id].final_result
              ok(m) == ar2[m].status = "success"
              field(m) == IF m \in DOMAIN ar2 THEN ar2[m].payload ELSE "absent"
          IN /\ (dpc[d] = "collect" /\ d_futures'[d] # d_futures[d])
                   => results' = results
             /\ (dpc[d] = "collect" /\ results' # results)
                   => /\ d_futures[d][n].done
                      /\ DOMAIN ar2 = DOMAIN ar \cup {n}
                      /\ ar2[n] = d_futures[d][n].value
                      /\ \A m \in DOMAIN ar \ {n} : ar2[m] = ar[m]
             /\ (dpc[d] = "collect" /\ dpc'[d] = "combine")
                   => ar2 = [m \in DOMAIN d_futures[d] |-> d_futures[d][m].value]
             /\ (dpc[d] = "extract" /\ dpc'[d] = "check")
                   => /\ ar2 = ar
                      /\ results'[id].status =
                            IF \A m \in DOMAIN ar : ok(m)
                            THEN "success" ELSE "partial_success"
                      /\ fr2.present
                      /\ fr2.status = results'[id].status
                      /\ fr2.generated_code = field("Earth")
                      /\ fr2.syntax_validation = field("Moon")
                      /\ fr2.performance_analysis = field("Sun")]_vars

\* C26 witness: the workers of a full_pipeline task complete out of dispatch
\* order: Earth has been collected, Moon is still running and Sun, dispatched
\* after Moon, is already done with an error result; the result map holds the
\* Earth entry only.
C26_Witness ==
    \E d \in DispThreads :
        /\ dpc[d] = "collect"
        /\ d_order[d] = <<"Earth", "Moon", "Sun">>
        /\ d_i[d] = 2
        /\ d_futures[d]["Moon"] = Running
        /\ d_futures[d]["Sun"] = Returned(WorkerError)
        /\ DOMAIN results[d_task_id[d]].assistant_results = {"Earth"}

\* C27: constructing the orchestrator with an empty worker registry aborts
\* initialization, so no constructed orchestrator has an empty registry and
\* no later process_tasks call fails because of one.
C27_EmptyRegistryAbortsConstruction ==
    \A d \in DispThreads :
        dpc[d] # "idle" =>
            /\ assistants # {}
            /\ d_exc[d] # "ValueError"

\* C28: the worker registry is fixed after construction: no step of
\* submit_task, process_tasks, handle_feedback or a status query adds, removes
\* or replaces a registered worker, so every get_system_status call reports
\* the workers registered at construction and the same active_assistants.
C28_RegistryFixed ==
    [][/\ assistants' = assistants
       /\ assistants' = initialize_assistants(ASSISTANTS)
       /\ reply'.op = "get_system_status" =>
             /\ reply'.system.active_assistants
                   = Cardinality(initialize_assistants(ASSISTANTS))
             /\ DOMAIN reply'.system.assistant_status
                   = initialize_assistants(ASSISTANTS)]_vars

\* C28 witness: get_system_status reports three active assistants after a
\* task has been submitted, processed and given feedback that names an
\* unregistered worker.
C28_Witness ==
    /\ reply.op = "get_system_status"
    /\ reply.system.active_assistants = 3
    /\ \E id \in DOMAIN results :
          /\ results[id].final_result.present
          /\ results[id].feedback.present
          /\ \E k \in 1..Len(results[id].feedback.assistant_feedback) :
                results[id].feedback.assistant_feedback[k] = "Mercury"

\* C29: within one process_tasks call the dispatch loop blocks on each task
\* until all of its worker invocations have resolved.  The futures that exist
\* are those of the one dequeued task; _combine_results is reached only when
\* every one of them is done; the next task is dequeued, and its workers
\* started, only when the record of the previous one has been finalized; and
\* the k-th finalization is that of the k-th entry submitted (under the id
\* that entry's dict carries, which is the id returned for it or for a later
\* submission of the same dict).
C29_OneTaskInFlight ==
    [][\A d \in DispThreads :
          LET k == Len(returned) - Len(task_queue)
          IN /\ DOMAIN d_futures'[d] # {} =>
                   /\ dpc'[d] \in {"collect", "handler", "combine"}
                   /\ DOMAIN d_futures'[d] = Range(d_order'[d])
             /\ (dpc[d] = "collect" /\ dpc'[d] = "combine") =>
                   \A n \in DOMAIN d_futures[d] : d_futures[d][n].done
             /\ (dpc[d] = "read" /\ dpc'[d] = "collect") =>
                   /\ \A n \in DOMAIN d_futures'[d] : d_futures'[d][n] = Running
                   /\ d_futures[d] = <<>>
                   /\ d_task_id[d] # NoId =>
                         results[d_task_id[d]].final_result.present
             /\ (dpc[d] = "extract" /\ dpc'[d] = "check") =>
                   /\ results'[d_task_id[d]].final_result.present
                   /\ k \in 1..Len(returned)
                   /\ \E j \in k..Len(returned) : returned[j] = d_task_id[d]]_vars

\* C29 witness: the first of two queued tasks has been finalized and the
\* second, submitted under another id, has not been dequeued: it is still in
\* the queue, its record is pending and no future exists.
C29_Witness ==
    \E d \in DispThreads :
        /\ JustFinalized(d)
        /\ Len(returned) = 2
        /\ returned[1] # returned[2]
        /\ d_task_id[d] = returned[1]
        /\ results[returned[1]].final_result.present
        /\ Len(task_queue) = 1
        /\ heap[task_queue[1]].task_id = returned[2]
        /\ results[returned[2]].status = "pending"
        /\ results[returned[2]].assistant_results = <<>>
        /\ d_futures[d] = <<>>

\* C30: the final result carries generated_code exactly when the result map
\* has an Earth entry, syntax_validation exactly when it has a Moon entry and
\* performance_analysis exactly when it has a Sun entry; when _combine_results
\* has just run, each value is the one held by that worker's entry, which is
\* null when the entry is an error result.
C30_ExtractedFields ==
    /\ \A id \in DOMAIN results :
          LET ar == results[id].assistant_results
              fr == results[id].final_result
          IN fr.present =>
                /\ fr.generated_code # "absent" <=> "Earth" \in DOMAIN ar
                /\ fr.syntax_validation # "absent" <=> "Moon" \in DOMAIN ar
                /\ fr.performance_analysis # "absent" <=> "Sun" \in DOMAIN ar
    /\ \A d \in DispThreads :
          JustFinalized(d) =>
             LET ar == results[d_task_id[d]].assistant_results
                 fr == results[d_task_id[d]].final_result
                 copied(value, n) ==
                    n \in DOMAIN ar =>
                       /\ value = ar[n].payload
                       /\ ar[n].status = "error" => value = "null"
                       /\ ar[n].status # "error" => value = "data"
             IN /\ fr.present
                /\ copied(fr.generated_code, "Earth")
                /\ copied(fr.syntax_validation, "Moon")
                /\ copied(fr.performance_analysis, "Sun")

\* C30 witness: a code_generation task was finalized with generated_code and
\* neither of the other two fields, and a full_pipeline task has just been
\* finalized with a null generated_code, Earth's entry being an error result,
\* and the values of Moon and Sun.
C30_Witness ==
    \E d \in DispThreads, id \in DOMAIN results :
        /\ JustFinalized(d)
        /\ id # d_task_id[d]
        /\ results[id].final_result.present
        /\ results[id].final_result.generated_code = "data"
        /\ results[id].final_result.syntax_validation = "absent"
        /\ results[id].final_result.performance_analysis = "absent"
        /\ LET rec == results[d_task_id[d]]
           IN /\ DOMAIN rec.assistant_results = {"Earth", "Moon", "Sun"}
              /\ rec.assistant_results["Earth"].status = "error"
              /\ rec.final_result.generated_code = "null"
              /\ rec.final_result.syntax_validation = "data"
              /\ rec.final_result.performance_analysis = "data"

\* C31: in every reachable state a task record's final_result is absent
\* exactly when its status is pending: a pending record has no final result
\* and a record of any other status has one.
C31_FinalAbsentIffPending ==
    \A id \in DOMAIN results :
        (~results[id].final_result.present) <=> (results[id].status = "pending")

\* C32: completed_tasks as get_system_status reports it never decreases over
\* any step of submit_task, process_tasks and handle_feedback.
C32_CompletedTasksMonotone ==
    [][get_system_status(assistants', task_queue', heap', results').completed_tasks
          >= get_system_status(assistants, task_queue, heap, results).completed_tasks]_vars

\* C33: handle_feedback never modifies the pending queue, the queued task
\* dicts, any task's result map or final result, or any record other than the
\* target's; it creates no record; on an existing task it changes at most the
\* status and the stored feedback of that record; with an unknown id it
\* changes no record and calls no worker.
C33_FeedbackFrame ==
    [][fb'.calls = fb.calls + 1 =>
          /\ task_queue' = task_queue
          /\ heap' = heap
          /\ DOMAIN results' = DOMAIN results
          /\ \A id \in DOMAIN results :
                /\ results'[id].assistant_results = results[id].assistant_results
                /\ results'[id].final_result = results[id].final_result
                /\ id # fb'.task_id => results'[id] = results[id]
          /\ fb'.task_id \notin DOMAIN results =>
                /\ ~fb'.known
                /\ results' = results
                /\ fb'.delivered = <<>>]_vars

\* C33 witness: handle_feedback has just delivered feedback for a finalized
\* task and set it to completed_with_feedback while the record of another
\* task is pending and that task is in the queue.
C33_Witness ==
    /\ fb.calls = 1
    /\ fb.known
    /\ fb.delivered # <<>>
    /\ results[fb.task_id].status = "completed_with_feedback"
    /\ results[fb.task_id].final_result.present
    /\ \E id \in DOMAIN results \ {fb.task_id} : results[id].status = "pending"
    /\ task_queue # <<>>

\* C34: if the handle_feedback of a registered worker raises during
\* handle_feedback(task_id, feedback), the exception reaches the caller (no
\* value is returned), the workers called are the registered workers named up
\* to and including the one that raised, so those named later receive
\* nothing, and every record, the target's status and stored feedback
\* included, is as it was before the call.
C34_WorkerFeedbackRaises ==
    [][(fb'.calls = fb.calls + 1 /\ fb'.raised) =>
          LET registered == SelectSeq(fb'.payload, LAMBDA n : n \in assistants)
              count == Len(fb'.delivered)
          IN /\ fb'.value = NoCall.value
             /\ fb'.known
             /\ count \in 1..Len(registered)
             /\ \A k \in 1..count : fb'.delivered[k] = registered[k]
             /\ results' = results
             /\ results'[fb'.task_id].status = results[fb'.task_id].status
             /\ results'[fb'.task_id].feedback = results[fb'.task_id].feedback]_vars

\* C34 witness: feedback naming Earth, Mercury and Moon was given for a
\* finalized task, Earth's handle_feedback raised, Moon received nothing and
\* the record has no stored feedback and still its finalized status.
C34_Witness ==
    /\ fb.calls = 1
    /\ fb.raised
    /\ fb.payload = <<"Earth", "Mercury", "Moon">>
    /\ fb.delivered = <<"Earth">>
    /\ results[fb.task_id].final_result.present
    /\ results[fb.task_id].status = "success"
    /\ ~results[fb.task_id].feedback.present

\* C35: when two process_tasks calls run concurrently on one orchestrator,
\* neither call raises (in particular neither pops from a queue the other has
\* just emptied), and when both have returned every submitted task has a
\* final result.
C35_ConcurrentProcessTasks ==
    [][\A d \in ProcThreads :
          /\ dpc'[d] # "raised"
          /\ (task_queue' = <<>> /\ \A e \in ProcThreads : dpc'[e] = "idle")
                => \A id \in DOMAIN results' : results'[id].final_result.present]_vars

\* C36: if every worker invocation returns or raises and finitely many tasks
\* are submitted, every process_tasks call terminates with the pending queue
\* empty: a running call never ends by raising, and it leaves its loop only
\* when it has found the queue empty.
C36_TerminatesWithEmptyQueue ==
    [][\A d \in DispThreads :
          dpc[d] \notin {"idle", "raised"} =>
             /\ dpc'[d] # "raised"
             /\ (dpc[d] = "check" /\ dpc'[d] = "exit") => task_queue = <<>>]_vars

\* C37: a later submit_task call never changes the id of a task that is in
\* the pending queue, also when the caller passes the same dict again: the id
\* carried by every queue entry is the same after every step, and when
\* process_tasks returns the record of every returned id has been finalized.
C37_QueuedIdsStable ==
    [][/\ \A k \in 1..Len(task_queue) :
             heap'[task_queue[k]].task_id = heap[task_queue[k]].task_id
       /\ \A d \in DispThreads :
             (dpc[d] = "exit" /\ dpc'[d] = "idle") =>
                \A k \in 1..Len(returned) :
                   results'[returned[k]].final_result.present]_vars

\* C38: run_single_task returns for every task it submits: once the task is
\* submitted, its polling loop eventually reads a status among success, error
\* and completed_with_feedback and is left.
C38_RunSingleTaskReturns ==
    \A s \in ExampleThreads :
        (Len(returned) = 1 /\ spc[s] = "idle") ~> (spc[s] = "returned")

\* ---------------------------------------------------------------------
\* BaseAssistant.run (assistants/base.py): the polling loop of one
\* assistant on the queue named by config['queue_url'].
\* ---------------------------------------------------------------------

\* Task messages on the queue when run starts.
MaxQueued == 2
\* Progress reports the loop sends before the model stops it.
MaxSent == 3
\* Messages one receive_message call returns (MaxNumberOfMessages).
MaxBatch == 2

TaskMessages == 1..MaxQueued
ReportMessages == (MaxQueued + 1)..(MaxQueued + MaxSent)

\* mutant of send_message: the report goes to some other queue
send_message_elsewhere(queue, m) == queue

\* sqs_client.send_message(QueueUrl=self.config['queue_url'], ...)
send_message(queue, m) == queue \cup {m}

\* sqs_client.delete_message(QueueUrl=self.config['queue_url'], ...)
delete_message(queue, m) == queue \ {m}

\* mutant of after_process_task: the progress report is skipped
after_process_task_delete == "delete"

\* The statement run executes after process_task has returned.
after_process_task == "report"

\* The batches receive_message may return: visible messages, in any order.
Batches(visible) ==
    UNION {{q \in [1..Cardinality(S) -> S] :
               \A i, j \in 1..Cardinality(S) : i # j => q[i] # q[j]} :
           S \in {T \in SUBSET visible : Cardinality(T) <= MaxBatch}}

\* An assistant starts run on a queue holding some task messages.
InitRun ==
    /\ OrchestratorInit(ASSISTANTS)
    /\ sqs \in SUBSET TaskMessages
    /\ sqs_hidden = {}
    /\ apc = "receive"
    /\ a_messages = <<>>
    /\ a_log = [sent |-> 0, processed |-> {}, reported |-> {}, size0 |-> 0]

ovars == <<clock, assistants, task_queue, heap, results, dvars, svars,
           returned, routed, combined, started, fb, faults, reply>>

\* line 71: messages = self.receive_tasks(); an empty batch loops again.
RunReceive ==
    /\ apc = "receive"
    /\ \E batch \in Batches(sqs \ sqs_hidden) :
          /\ a_messages' = batch
          /\ sqs_hidden' = sqs_hidden \cup {batch[i] : i \in 1..Len(batch)}
          /\ apc' = IF batch = <<>> THEN "receive" ELSE "process"
    /\ UNCHANGED <<sqs, a_log, ovars>>

\* lines 73-74: json.loads and process_task, which returns or raises.
RunProcess(raises) ==
    /\ apc = "process"
    /\ IF raises
       THEN /\ apc' = "raised"
            /\ a_log' = [a_log EXCEPT !.size0 = Cardinality(sqs)]
       ELSE /\ apc' = after_process_task
            /\ a_log' = [a_log EXCEPT !.processed = @ \cup {Head(a_messages)},
                                      !.size0 = Cardinality(sqs)]
    /\ UNCHANGED <<sqs, sqs_hidden, a_messages, ovars>>

\* line 75: send_progress_report, which sends one message or raises.
RunReport(raises) ==
    /\ apc = "report"
    /\ a_log.sent < MaxSent
    /\ IF raises
       THEN /\ apc' = "raised"
            /\ UNCHANGED <<sqs, a_log>>
       ELSE /\ apc' = "delete"
            /\ sqs' = send_message(sqs, MaxQueued + a_log.sent + 1)
            /\ a_log' = [a_log EXCEPT !.sent = @ + 1,
                                      !.reported = @ \cup {Head(a_messages)}]
    /\ UNCHANGED <<sqs_hidden, a_messages, ovars>>

\* line 76: delete_message, then the next message of the batch or the
\* next receive.
RunDelete ==
    /\ apc = "delete"
    /\ sqs' = delete_message(sqs, Head(a_messages))
    /\ sqs_hidden' = sqs_hidden \ {Head(a_messages)}
    /\ a_messages' = Tail(a_messages)
    /\ apc' = IF Tail(a_messages) = <<>> THEN "receive" ELSE "process"
    /\ UNCHANGED <<a_log, ovars>>

\* The queue makes a received, undeleted message visible again when its
\* visibility timeout ends.
Redeliver(m) ==
    /\ m \in sqs_hidden
    /\ sqs_hidden' = sqs_hidden \ {m}
    /\ UNCHANGED <<sqs, apc, a_messages, a_log, ovars>>

NextRun ==
    \/ RunReceive
    \/ \E raises \in BOOLEAN : RunProcess(raises)
    \/ \E raises \in BOOLEAN : RunReport(raises)
    \/ RunDelete
    \/ \E m \in TaskMessages \cup ReportMessages : Redeliver(m)

SpecRun == InitRun /\ [][NextRun]_vars

\* C39: in BaseAssistant.run a message leaves the queue only at the
\* delete step of its own handling, after process_task has returned for it
\* and its progress report has been sent; when either step raises, the
\* message being handled is still on the queue, and stays there.
C39_DeleteOnlyAfterReport ==
    [][/\ \A m \in sqs \ sqs' :
             /\ apc = "delete"
             /\ m = Head(a_messages)
             /\ m \in a_log.processed
             /\ m \in a_log.reported
       /\ apc' = "raised" => Head(a_messages') \in sqs']_vars

\* One message has been processed, reported and deleted, and the handling
\* of a later one has raised, leaving it on the queue.
C39_Witness ==
    /\ apc = "raised"
    /\ Head(a_messages) \in sqs
    /\ \E m \in a_log.reported : m \in a_log.processed /\ m \notin sqs

\* C40: the progress report of BaseAssistant.run goes to the queue the
\* tasks are received from: the report step puts exactly one new, receivable
\* message on that queue, and when the handling of a message ends with its
\* deletion the queue holds at least as many messages as when it began.
C40_QueueNeverShrinks ==
    [][/\ (apc = "report" /\ apc' = "delete") =>
             \E m \in ReportMessages :
                 /\ m \notin sqs
                 /\ sqs' = sqs \cup {m}
                 /\ m \notin sqs_hidden'
       /\ (apc = "delete" /\ apc' # "delete") =>
             Cardinality(sqs') >= a_log.size0]_vars

\* A progress report has itself been received, processed as a task,
\* reported on and deleted, and the queue is not empty.
C40_Witness ==
    /\ \E m \in ReportMessages :
          m \in a_log.processed /\ m \in a_log.reported /\ m \notin sqs
    /\ sqs # {}

====
